---- MODULE Spec2Model ----
(***************************************************************************)
(* Normalisation, identifier reconciliation and whole-table write-back of  *)
(* the MG simulation tracker (mg_simulazione.py and its single-table       *)
(* variant mg_simulazione_app_gsheet_sync_full_MGSTORICO.py).              *)
(*                                                                         *)
(* A table (pandas DataFrame) is [ok, cols, rows]: cols is the sequence of *)
(* column names, rows a sequence of functions from the column names to     *)
(* cells.  A cell is a tagged record: a string (a sequence of characters), *)
(* an int, a float (in hundredths), NaN, None or an infinity.  Strings are *)
(* sequences of one-character strings, so that pd.to_numeric, str.strip    *)
(* and astype(str) are computed character by character.                    *)
(***************************************************************************)
EXTENDS Integers, Sequences, FiniteSets, TLC

\* ------------------------------------------------------------------ cells
Str(s) == [t |-> "s", s |-> s]
IntV(n) == [t |-> "i", n |-> n]
FltV(m) == [t |-> "f", m |-> m]
NaN == [t |-> "nan"]
None == [t |-> "none"]
InfV(sg) == [t |-> "inf", sg |-> sg]

isna(c) == c.t \in {"nan", "none"}
notna(c) == ~isna(c)
fillna(c, v) == IF isna(c) THEN v ELSE c

\* ------------------------------------------------------- program constants
OUTCOMES ==
  << <<"I","n"," ","a","t","t","e","s","a">>,
     <<"V","i","n","t","a">>,
     <<"P","e","r","s","a">> >>

LEAGUES ==
  << <<"S","e","r","i","e"," ","A">>,
     <<"S","e","r","i","e"," ","B">>,
     <<"P","r","e","m","i","e","r"," ","L","e","a","g","u","e">>,
     <<"B","u","n","d","e","s","l","i","g","a">>,
     <<"L","i","g","a">>,
     <<"L","i","g","u","e"," ","1">>,
     <<"E","r","e","d","i","v","i","s","i","e">>,
     <<"P","r","i","m","e","i","r","a"," ","L","i","g","a"," ",
       "(","P","o","r","t","o","g","a","l","l","o",")">>,
     <<"A","l","t","r","o">> >>

InAttesa == OUTCOMES[1]
Vinta == OUTCOMES[2]
Persa == OUTCOMES[3]
Altro == LEAGUES[9]

REQUIRED_COLUMNS_SINGOLE ==
  <<"ID", "Data", "Campionato", "Partita", "Mercato", "Quota", "Esito", "Note">>
REQUIRED_COLUMNS_MULTIPLE ==
  <<"ID", "Data", "Multipla", "Quota Totale", "Stake", "Esito", "Note">>

Kinds == {"singole", "multiple"}
required_cols(kind) ==
  IF kind = "singole" THEN REQUIRED_COLUMNS_SINGOLE ELSE REQUIRED_COLUMNS_MULTIPLE

Range(s) == {s[i] : i \in 1..Len(s)}

\* The element of a one-element set.  Only({F(x) : x \in {e}}) is F applied
\* to the value of e: the value is computed once and then named x, the way
\* the code assigns the result of a step to a variable and goes on with it.
Only(S) == CHOOSE x \in S : TRUE
isin(c, values) == c.t = "s" /\ c.s \in Range(values)

\* ------------------------------------------------------ string operations
IsSpace(ch) == ch = " "

RECURSIVE lstrip(_)
lstrip(s) == IF s # <<>> /\ IsSpace(Head(s)) THEN lstrip(Tail(s)) ELSE s

RECURSIVE rstrip(_)
rstrip(s) ==
  IF s # <<>> /\ IsSpace(s[Len(s)]) THEN rstrip(SubSeq(s, 1, Len(s) - 1)) ELSE s

strip(s) == rstrip(lstrip(s))

Digits == <<"0","1","2","3","4","5","6","7","8","9">>
IsDigit(ch) == ch \in Range(Digits)
DigitVal(ch) == (CHOOSE i \in 1..10 : Digits[i] = ch) - 1
AllDigits(s) == \A i \in 1..Len(s) : IsDigit(s[i])

RECURSIVE DigitsVal(_)
DigitsVal(s) ==
  IF s = <<>> THEN 0
  ELSE 10 * DigitsVal(SubSeq(s, 1, Len(s) - 1)) + DigitVal(s[Len(s)])

RECURSIVE NatStr(_)
NatStr(n) == IF n < 10 THEN <<Digits[n + 1]>>
             ELSE NatStr(n \div 10) \o <<Digits[(n % 10) + 1]>>

\* Position of the first "." in s, 0 when there is none.
DotPos(s) ==
  IF \E i \in 1..Len(s) : s[i] = "."
  THEN CHOOSE i \in 1..Len(s) : s[i] = "." /\ \A j \in 1..(i - 1) : s[j] # "."
  ELSE 0

\* The unsigned body of a numeric literal: digits, or digits "." digits.  A
\* float is held in hundredths, so a literal has at most two decimals.
ParseUnsigned(s) ==
  LET d == DotPos(s) IN
  IF s = <<>> THEN NaN
  ELSE IF d = 0 THEN (IF AllDigits(s) THEN IntV(DigitsVal(s)) ELSE NaN)
  ELSE LET ip == SubSeq(s, 1, d - 1)
           fp == SubSeq(s, d + 1, Len(s))
       IN IF (ip # <<>> \/ fp # <<>>) /\ AllDigits(ip) /\ AllDigits(fp) /\ Len(fp) <= 2
          THEN FltV(DigitsVal(ip) * 100
                    + (IF Len(fp) = 0 THEN 0
                       ELSE IF Len(fp) = 1 THEN 10 * DigitsVal(fp)
                       ELSE DigitsVal(fp)))
          ELSE NaN

Negate(c) ==
  CASE c.t = "i" -> IntV(0 - c.n)
    [] c.t = "f" -> FltV(0 - c.m)
    [] c.t = "inf" -> InfV(0 - c.sg)
    [] OTHER -> c

\* pd.to_numeric(errors="coerce") of one string.
ParseNum(s) ==
  LET neg == s # <<>> /\ Head(s) = "-"
      body == IF s # <<>> /\ Head(s) \in {"-", "+"} THEN Tail(s) ELSE s
      v == IF body = <<"i","n","f">> THEN InfV(1)
           ELSE IF body = <<"n","a","n">> THEN NaN
           ELSE ParseUnsigned(body)
  IN IF neg THEN Negate(v) ELSE v

\* pd.to_numeric(errors="coerce") of one cell, before the column's dtype is
\* settled.
to_numeric_cell(c) ==
  CASE c.t = "s" -> ParseNum(c.s)
    [] c.t = "none" -> NaN
    [] OTHER -> c

\* int64 when every value is an int, float64 otherwise.
AsFloat(c) == IF c.t = "i" THEN FltV(c.n * 100) ELSE c
to_numeric(col) ==
  Only({ IF \A i \in 1..Len(p) : p[i].t = "i" THEN p
         ELSE [i \in 1..Len(p) |-> AsFloat(p[i])] :
         p \in {[i \in 1..Len(col) |-> to_numeric_cell(col[i])]} })

\* str() of one cell, as DataFrame.astype(str) applies it.
FloatStr(m) ==
  LET a == IF m < 0 THEN 0 - m ELSE m
      fr == a % 100
      frs == IF fr % 10 = 0 THEN <<Digits[(fr \div 10) + 1]>>
             ELSE <<Digits[(fr \div 10) + 1], Digits[(fr % 10) + 1]>>
  IN (IF m < 0 THEN <<"-">> ELSE <<>>) \o NatStr(a \div 100) \o <<".">> \o frs

astype_str(c) ==
  CASE c.t = "s" -> c.s
    [] c.t = "i" -> (IF c.n < 0 THEN <<"-">> \o NatStr(0 - c.n) ELSE NatStr(c.n))
    [] c.t = "f" -> FloatStr(c.m)
    [] c.t = "nan" -> <<"n","a","n">>
    [] c.t = "none" -> <<"N","o","n","e">>
    [] c.t = "inf" -> (IF c.sg < 0 THEN <<"-","i","n","f">> ELSE <<"i","n","f">>)

\* ------------------------------------------------------------- DataFrames
DF(cols, rows) == [ok |-> TRUE, cols |-> cols, rows |-> rows]
Raised == [ok |-> FALSE, cols |-> <<>>, rows |-> <<>>]
NoneDF == [ok |-> TRUE, cols |-> <<>>, rows |-> <<>>, none |-> TRUE]
is_None(df) == "none" \in DOMAIN df
empty(df) == Len(df.cols) = 0 \/ Len(df.rows) = 0
EmptyStr == Str(<<>>)

Col(df, c) == [i \in 1..Len(df.rows) |-> df.rows[i][c]]
SetCol(df, c, col) ==
  [df EXCEPT !.rows = [i \in 1..Len(df.rows) |-> [df.rows[i] EXCEPT ![c] = col[i]]]]
Select(df, cols) ==
  [df EXCEPT !.cols = cols,
             !.rows = [i \in 1..Len(df.rows) |-> [x \in Range(cols) |-> df.rows[i][x]]]]

\* int(x) and astype(int) of a finite number: truncation toward zero.
TruncInt(c) ==
  IF c.t = "i" THEN c.n
  ELSE IF c.m < 0 THEN 0 - ((0 - c.m) \div 100) ELSE c.m \div 100

NumLess(a, b) ==
  LET va == IF a.t = "i" THEN a.n * 100 ELSE a.m
      vb == IF b.t = "i" THEN b.n * 100 ELSE b.m
  IN va < vb

\* sort_values("ID") on the integer ID column.  On a table this short the
\* sort is an insertion sort, so rows with equal ids keep their order: row i
\* lands behind the rows with a smaller id and the earlier rows with its id.
SortPos(rows, i) ==
  1 + Cardinality({j \in 1..Len(rows) :
                     \/ rows[j]["ID"].n < rows[i]["ID"].n
                     \/ rows[j]["ID"].n = rows[i]["ID"].n /\ j < i})
SortRows(rows) ==
  [k \in 1..Len(rows) |-> rows[CHOOSE i \in 1..Len(rows) : SortPos(rows, i) = k]]

sort_values_ID(df) == [df EXCEPT !.rows = SortRows(df.rows)]

\* ------------------------------------------------------------ _ensure_ids
\* A faulty renumbering (in reverse row order) that C3 must tell apart from
\* the code's.
Renumber_Reversed(df) ==
  SetCol(df, "ID", [i \in 1..Len(df.rows) |-> IntV(Len(df.rows) + 1 - i)])
\* df["ID"] = range(1, len(df)+1)
Renumber(df) == SetCol(df, "ID", [i \in 1..Len(df.rows) |-> IntV(i)])

EnsureIdsFrom(df, id_num) ==
    LET n == Len(df.rows)
        present == {i \in 1..n : notna(id_num[i])}
        missing == {i \in 1..n : isna(id_num[i])}
        duplicated == \E i, j \in present : i < j /\ id_num[i] = id_num[j]
        finite == {i \in present : id_num[i].t # "inf"}
        top == CHOOSE i \in finite : \A j \in finite : ~NumLess(id_num[i], id_num[j])
        max_id == IF present # {} THEN TruncInt(id_num[top]) ELSE 0
        rank(i) == Cardinality({j \in missing : j <= i})
    IN IF present # {} /\ duplicated
       THEN Renumber(df)
       ELSE IF finite # present
       THEN Raised   \* int(inf): OverflowError; astype(int) of inf: IntCastingNaNError
       ELSE SetCol(df, "ID",
              [i \in 1..n |-> IF i \in missing THEN IntV(max_id + rank(i))
                              ELSE IntV(TruncInt(id_num[i]))])

\* A faulty _ensure_ids that renumbers every table it is given.
_ensure_ids_Renumbering(df) ==
  IF empty(df) THEN df ELSE Renumber(df)
_ensure_ids(df) ==
  IF empty(df) THEN df
  ELSE Only({ EnsureIdsFrom(df, id_num) : id_num \in {to_numeric(Col(df, "ID"))} })

\* -------------------------------------------------------------- _normalize
\* for c in required_cols: if c not in df.columns: df[c] = ""
AddMissing(df, cols) ==
  [df EXCEPT
     !.cols = df.cols \o SelectSeq(cols, LAMBDA c : c \notin Range(df.cols)),
     !.rows = [i \in 1..Len(df.rows) |->
                 [x \in (DOMAIN df.rows[i]) \cup Range(cols) |->
                    IF x \in DOMAIN df.rows[i] THEN df.rows[i][x] ELSE EmptyStr]]]

\* A faulty coercion that fills blanks only and keeps unknown outcomes.
CoerceEsito_BlankOnly(c) ==
  LET e1 == fillna(c, EmptyStr)
  IN IF e1 = EmptyStr THEN Str(InAttesa) ELSE e1
CoerceEsito(c) ==
  LET e1 == fillna(c, EmptyStr)
      e2 == IF e1 = EmptyStr THEN Str(InAttesa) ELSE e1
  IN IF ~isin(e2, OUTCOMES) THEN Str(InAttesa) ELSE e2

CoerceData(c, now) ==
  LET d == fillna(c, EmptyStr)
  IN IF strip(astype_str(d)) = <<>> THEN Str(now) ELSE d

CoerceCampionato(c) ==
  LET l == fillna(c, Str(Altro))
  IN IF ~isin(l, LEAGUES) THEN Str(Altro) ELSE l

\* The column assignments of _normalize, row by row (@ is the cell as it
\* was); the numeric columns are converted as whole columns first.
CoerceCommon(df, now) ==
  [df EXCEPT !.rows =
     [i \in 1..Len(df.rows) |->
        [df.rows[i] EXCEPT !["Esito"] = CoerceEsito(@),
                           !["Data"] = CoerceData(@, now),
                           !["Note"] = fillna(@, EmptyStr)]]]

CoerceSingole(df) ==
  Only({ [df EXCEPT !.rows =
            [i \in 1..Len(df.rows) |->
               [df.rows[i] EXCEPT !["Quota"] = quota[i],
                                  !["Campionato"] = CoerceCampionato(@),
                                  !["Partita"] = fillna(@, EmptyStr),
                                  !["Mercato"] = fillna(@, EmptyStr)]]] :
         quota \in {to_numeric(Col(df, "Quota"))} })

CoerceMultiple(df) ==
  Only({ [df EXCEPT !.rows =
            [i \in 1..Len(df.rows) |->
               [df.rows[i] EXCEPT !["Quota Totale"] = quota[i],
                                  !["Stake"] = fillna(stake[i], FltV(0)),
                                  !["Multipla"] = fillna(@, EmptyStr)]]] :
         quota \in {to_numeric(Col(df, "Quota Totale"))},
         stake \in {to_numeric(Col(df, "Stake"))} })

\* The steps of _normalize, last step first: a is the table with the missing
\* columns added, b and c the table after the coercions, d after _ensure_ids.
_normalize(df, kind, now) ==
  IF is_None(df) \/ empty(df) THEN DF(required_cols(kind), <<>>)
  ELSE
    Only({ IF ~d.ok THEN Raised   \* the exception of _ensure_ids propagates
           ELSE sort_values_ID(Select(d, required_cols(kind))) :
      d \in { _ensure_ids(c) :
      c \in { IF kind = "singole" THEN CoerceSingole(b) ELSE CoerceMultiple(b) :
      b \in { CoerceCommon(a, now) :
      a \in { AddMissing(df, required_cols(kind)) } } } } })

\* _normalize of mg_simulazione_app_gsheet_sync_full_MGSTORICO.py (one table,
\* REQUIRED_COLUMNS are the columns of the singles): it fills Esito,
\* Campionato, Data and Note, and assigns nothing to Partita and Mercato.
REQUIRED_COLUMNS == REQUIRED_COLUMNS_SINGOLE
CoerceStorico(df, now) ==
  Only({ [df EXCEPT !.rows =
            [i \in 1..Len(df.rows) |->
               [df.rows[i] EXCEPT !["Quota"] = quota[i],
                                  !["Esito"] = CoerceEsito(@),
                                  !["Campionato"] = CoerceCampionato(@),
                                  !["Data"] = CoerceData(@, now),
                                  !["Note"] = fillna(@, EmptyStr)]]] :
         quota \in {to_numeric(Col(df, "Quota"))} })

normalize_MGSTORICO(df, now) ==
  IF is_None(df) \/ empty(df) THEN DF(REQUIRED_COLUMNS, <<>>)
  ELSE
    Only({ IF ~d.ok THEN Raised
           ELSE sort_values_ID(Select(d, REQUIRED_COLUMNS)) :
      d \in { _ensure_ids(b) :
      b \in { CoerceStorico(a, now) :
      a \in { AddMissing(df, REQUIRED_COLUMNS) } } } })

\* ---------------------------------------------------- the worksheet (store)
\* A worksheet is its first row (the header: column names) and the data rows
\* below it, each a sequence of strings aligned with the header.
EmptySheet == [header |-> <<>>, rows |-> <<>>]

Overlay(new, old) == new \o SubSeq(old, Len(new) + 1, Len(old))

\* A faulty clear that leaves the worksheet as it is.
ws_clear_Noop(sheet) == sheet
\* ws.clear()
ws_clear(sheet) == EmptySheet

\* ws.update("A1", values): the cells of the rectangle of `values` are
\* overwritten, every other cell keeps its content.
ws_update(sheet, values) ==
  LET n == IF Len(values.rows) > Len(sheet.rows) THEN Len(values.rows) ELSE Len(sheet.rows)
  IN [header |-> Overlay(values.header, sheet.header),
      rows |-> [i \in 1..n |->
                  IF i <= Len(values.rows)
                  THEN Overlay(values.rows[i],
                               IF i <= Len(sheet.rows) THEN sheet.rows[i] ELSE <<>>)
                  ELSE sheet.rows[i]]]

\* ws.get_all_values(): the rows padded with "" to the width of the header.
PadTo(r, n) == r \o [i \in 1..(n - Len(r)) |-> <<>>]
get_all_values(sheet) ==
  [header |-> sheet.header,
   rows |-> [i \in 1..Len(sheet.rows) |-> PadTo(sheet.rows[i], Len(sheet.header))]]

\* for c in required_cols: if c not in header: header.append(c)
AppendMissing(header, cols) ==
  header \o SelectSeq(cols, LAMBDA c : c \notin Range(header))

\* _ensure_header(ws, required_cols): the worksheet after the repair.
_ensure_header(sheet, required) ==
  IF sheet.header = <<>> THEN ws_update(sheet, [header |-> required, rows |-> <<>>])
  ELSE Only({ IF header # sheet.header
              THEN ws_update(sheet, [header |-> header, rows |-> <<>>])
              ELSE sheet :
              header \in {AppendMissing(sheet.header, required)} })

\* pd.DataFrame(rows, columns=header) of the strings read from the sheet.
Index(seq, x) == CHOOSE i \in 1..Len(seq) : seq[i] = x
DataFrame(values) ==
  DF(values.header,
     [i \in 1..Len(values.rows) |->
        [c \in Range(values.header) |-> Str(values.rows[i][Index(values.header, c)])]])

\* The body of _load_generic on a cache miss: the table it returns (df) and
\* the worksheet it leaves (sheet: the header may have been repaired).
_load_generic(sheet0, kind, now) ==
  Only({ [sheet |-> sheet,
          df |-> IF Len(sheet.rows) = 0 THEN DF(required_cols(kind), <<>>)
                 ELSE Only({ _normalize(df, kind, now) :
                             df \in {DataFrame(get_all_values(sheet))} })] :
         sheet \in {_ensure_header(sheet0, required_cols(kind))} })

\* values = [required_cols] + df.astype(str).values.tolist()
ToValues(df, kind) ==
  [header |-> required_cols(kind),
   rows |-> [i \in 1..Len(df.rows) |->
               [j \in 1..Len(required_cols(kind)) |->
                  astype_str(df.rows[i][required_cols(kind)[j]])]]]

\* _write_generic when no store call fails: the worksheet it leaves, and
\* whether it completed (it does not when _normalize raises).
_write_generic(sheet0, df0, kind, now) ==
  Only({ IF ~df.ok THEN [ok |-> FALSE, sheet |-> sheet]
         ELSE Only({ [ok |-> TRUE, sheet |-> ws_update(ws_clear(sheet), values)] :
                     values \in {ToValues(df, kind)} }) :
         sheet \in {_ensure_header(sheet0, required_cols(kind))},
         df \in {_normalize(df0, kind, now)} })

\* write_to_sheet of the MGSTORICO app when no store call fails.
write_to_sheet(sheet0, df0, now) ==
  Only({ IF ~df.ok THEN [ok |-> FALSE, sheet |-> sheet]
         ELSE Only({ [ok |-> TRUE, sheet |-> ws_update(ws_clear(sheet), values)] :
                     values \in {ToValues(df, "singole")} }) :
         sheet \in {_ensure_header(sheet0, REQUIRED_COLUMNS)},
         df \in {normalize_MGSTORICO(df0, now)} })

\* ---------------------------------------------------------- profit helpers
\* Odds and stakes are held in hundredths, so a profit is held in
\* ten-thousandths: 0.80 is 8000, -1.0 is -10000, 15.0 is 150000.
Hundredths(c) == IF c.t = "i" THEN c.n * 100 ELSE c.m

profit_unit_stake(odds, outcome) ==
  IF isna(odds) THEN 0
  ELSE IF outcome = Str(Vinta) THEN (Hundredths(odds) - 100) * 100
  ELSE IF outcome = Str(Persa) THEN 0 - 10000
  ELSE 0

profit_with_stake(odds, outcome, stake) ==
  IF isna(odds) \/ isna(stake) THEN 0
  ELSE IF outcome = Str(Vinta) THEN Hundredths(stake) * (Hundredths(odds) - 100)
  ELSE IF outcome = Str(Persa) THEN 0 - (Hundredths(stake) * 100)
  ELSE 0

\* The Profit column of the reports: df_calc["Profit"] and dfm["Profit"].
ProfitColumn(df, kind) ==
  IF kind = "singole"
  THEN Only({ [i \in 1..Len(df.rows) |->
                 profit_unit_stake(quota[i], df.rows[i]["Esito"])] :
              quota \in {to_numeric(Col(df, "Quota"))} })
  ELSE Only({ [i \in 1..Len(df.rows) |->
                 profit_with_stake(quota[i], df.rows[i]["Esito"], fillna(stake[i], FltV(0)))] :
              quota \in {to_numeric(Col(df, "Quota Totale"))},
              stake \in {to_numeric(Col(df, "Stake"))} })

\* ------------------------------------------------------------------ state
VARIABLES
  table_kind,      \* the record kind of the table under study ("singole" or "multiple")
  today,     \* datetime.now().strftime("%Y-%m-%d")
  ws,        \* the worksheet in the store
  raw,       \* normalisation study: the raw input table
  step,      \* normalisation study: how far the pipeline has run
  out,       \* _normalize(raw)
  out2,      \* _normalize(_normalize(raw))
  back,      \* the table loaded back after out was written
  profit,    \* the Profit column the report computes from out
  cache,     \* st.cache_data entry of _load_generic
  pc,        \* per session: the statement the session's handler is at
  op,        \* per session: the handler that is running
  pend,      \* per session: the table handed to _write_generic
  before,    \* per session: the worksheet as it was when the write was called
  next_id,   \* per session: the id the add form announces
  storico,   \* decision app, per session: st.session_state.storico
  storico0   \* decision app, per session: storico when the handler started

normvars == <<raw, step, out, out2, back, profit>>
appvars == <<cache, pc, op, pend, before, next_id>>
decvars == <<storico, storico0>>
vars == <<table_kind, today, ws, raw, step, out, out2, back, profit, cache, pc, op, pend,
          before, next_id, storico, storico0>>

\* ----------------------------------------------------------------- inputs
MaxRows == 3

Day1 == <<"2","0","2","6","-","1","1","-","0","2">>
Day2 == <<"2","0","2","6","-","1","1","-","0","3">>
OldDay == <<"2","0","2","5","-","0","3","-","0","9">>

IdCells ==
  { Str(<<"1">>), Str(<<"2">>), Str(<<"1",".","5">>), Str(<<"0">>),
    Str(<<"i","n","f">>), Str(<<>>), Str(<<"x">>) }

\* The cells of a raw row other than its id: a clean row of the sheet, a row
\* of malformed strings, and a row of nulls as the grid editor hands over.
Clean(c) ==
  CASE c = "Data" -> Str(OldDay)
    [] c = "Campionato" -> Str(LEAGUES[1])
    [] c = "Partita" -> Str(<<"A","-","B">>)
    [] c = "Mercato" -> Str(<<"M","G">>)
    [] c = "Multipla" -> Str(<<"A","-","B">>)
    [] c = "Quota" -> Str(<<"1",".","8">>)
    [] c = "Quota Totale" -> Str(<<"2",".","5">>)
    [] c = "Stake" -> Str(<<"1","0">>)
    [] c = "Esito" -> Str(Vinta)
    [] c = "Note" -> Str(<<"o","k">>)
    [] OTHER -> Str(<<"e">>)

Dirty(c) ==
  CASE c = "Data" -> Str(<<" ","d"," ">>)
    [] c = "Campionato" -> Str(<<"L","i","g","a"," ">>)
    [] c = "Quota" -> Str(<<"a","b","c">>)
    [] c = "Quota Totale" -> Str(<<"2">>)
    [] c = "Stake" -> Str(<<>>)
    [] c = "Esito" -> Str(<<"v","i","n","t","a">>)
    [] c = "Note" -> Str(<<" ">>)
    [] OTHER -> Str(<<>>)

Null(c) ==
  CASE c = "Data" -> Str(<<" ">>)
    [] c \in {"Quota", "Quota Totale", "Stake"} -> NaN
    [] OTHER -> None

Templates == <<"clean", "dirty", "null">>
TemplateCell(t, c) ==
  CASE t = "clean" -> Clean(c) [] t = "dirty" -> Dirty(c) [] OTHER -> Null(c)

AllCols(kind) == Append(required_cols(kind), "Extra")
RawRow(kind, id, t) ==
  [c \in Range(AllCols(kind)) |-> IF c = "ID" THEN id ELSE TemplateCell(t, c)]

\* The columns a raw table carries: all of them, all and a foreign one, or
\* some required ones missing.
Without(seq, drop) == SelectSeq(seq, LAMBDA c : c \notin drop)
Headers(kind) ==
  { AllCols(kind),
    required_cols(kind),
    Without(required_cols(kind), {"ID"}),
    Without(required_cols(kind), {"Data", "Esito", "Note", "Quota", "Stake"}) }

\* Raw tables of up to MaxRows rows: every choice of id cells, the other
\* cells of consecutive rows cycling through the templates from any start.
RawTables(kind) ==
  { Select(DF(AllCols(kind),
              [i \in 1..Len(ids) |->
                 RawRow(kind, ids[i], Templates[((t0 + i) % Len(Templates)) + 1])]), h) :
      ids \in UNION {[1..n -> IdCells] : n \in 0..MaxRows},
      t0 \in 1..Len(Templates),
      h \in Headers(kind) }
  \cup {NoneDF, DF(<<>>, <<>>)}

Nil == DF(<<>>, <<>>)
Sessions == {"A", "B"}
NoCache == [valid |-> FALSE, df |-> Nil]

AppIdle ==
  /\ cache = NoCache
  /\ pc = [s \in Sessions |-> "idle"]
  /\ op = [s \in Sessions |-> "none"]
  /\ pend = [s \in Sessions |-> Nil]
  /\ before = [s \in Sessions |-> EmptySheet]
  /\ next_id = [s \in Sessions |-> 0]
  /\ storico = [s \in Sessions |-> Nil]
  /\ storico0 = [s \in Sessions |-> Nil]

\* ------------------------------------------- the normalisation study
InitNorm ==
  /\ table_kind \in Kinds
  /\ today = Day1
  /\ raw \in RawTables(table_kind)
  /\ step = "in"
  /\ out = Nil /\ out2 = Nil /\ back = Nil /\ profit = <<>>
  /\ ws = EmptySheet
  /\ AppIdle

\* The clock passes midnight.
Tick ==
  /\ today = Day1 /\ step # "in"
  /\ today' = Day2
  /\ UNCHANGED <<decvars, table_kind, ws, normvars, appvars>>

Normalize ==
  /\ step = "in"
  /\ out' = _normalize(raw, table_kind, today)
  /\ step' = "norm"
  /\ UNCHANGED <<decvars, table_kind, today, ws, raw, out2, back, profit, appvars>>

Renormalize ==
  /\ step = "norm" /\ out.ok
  /\ out2' = _normalize(out, table_kind, today)
  /\ step' = "norm2"
  /\ UNCHANGED <<decvars, table_kind, today, ws, raw, out, back, profit, appvars>>

WriteBack ==
  /\ step = "norm2"
  /\ \E w \in {_write_generic(ws, out, table_kind, today)} :
        /\ ws' = w.sheet
        /\ step' = IF w.ok THEN "written" ELSE "failed"
  /\ UNCHANGED <<decvars, table_kind, today, raw, out, out2, back, profit, appvars>>

ReadBack ==
  /\ step = "written"
  /\ \E l \in {_load_generic(ws, table_kind, today)} :
        /\ ws' = l.sheet
        /\ back' = l.df
  /\ step' = "read"
  /\ UNCHANGED <<decvars, table_kind, today, raw, out, out2, profit, appvars>>

NextNorm == Tick \/ Normalize \/ Renormalize \/ WriteBack \/ ReadBack

SpecNorm == InitNorm /\ [][NextNorm]_vars

\* ------------------------------------------------------------ the reports
\* Tables for the report: up to MaxReportRows rows with ids 1, 2, ..., every
\* outcome and every kind of odds and stake a cell may hold.
MaxReportRows == 2
EsitoCells == {Str(Vinta), Str(Persa), Str(InAttesa), Str(<<>>)}
OddsCells == {Str(<<"1",".","8">>), Str(<<"2",".","5">>), Str(<<"a","b","c">>), Str(<<>>)}
StakeCells == {Str(<<"1","0">>), Str(<<"0",".","5">>), Str(<<>>)}
ReportRows(kind) ==
  { [c \in Range(required_cols(kind)) |->
       CASE c = "Esito" -> e
         [] c \in {"Quota", "Quota Totale"} -> q
         [] c = "Stake" -> k
         [] OTHER -> Clean(c)] :
    e \in EsitoCells, q \in OddsCells,
    k \in IF kind = "singole" THEN {EmptyStr} ELSE StakeCells }
ReportTables(kind) ==
  { DF(required_cols(kind),
       [i \in 1..Len(rows) |-> [rows[i] EXCEPT !["ID"] = Str(<<Digits[i + 1]>>)]]) :
    rows \in UNION {[1..n -> ReportRows(kind)] : n \in 0..MaxReportRows} }

InitReport ==
  /\ table_kind \in Kinds
  /\ today = Day1
  /\ raw \in ReportTables(table_kind)
  /\ step = "in"
  /\ out = Nil /\ out2 = Nil /\ back = Nil /\ profit = <<>>
  /\ ws = EmptySheet
  /\ AppIdle

\* The report section of the script, run on the loaded (normalized) table.
Report ==
  /\ step = "norm" /\ out.ok
  /\ profit' = ProfitColumn(out, table_kind)
  /\ step' = "report"
  /\ UNCHANGED <<decvars, table_kind, today, ws, raw, out, out2, back, appvars>>

NextReport == Normalize \/ Report
SpecReport == InitReport /\ [][NextReport]_vars

\* ------------------------------------- the MGSTORICO app's normalisation
\* A table as the grid editor or the sheet hands it over is normalized and
\* then written by write_to_sheet.
InitStorico ==
  /\ table_kind = "storico"
  /\ today = Day1
  /\ raw \in RawTables("singole")
  /\ step = "in"
  /\ out = Nil /\ out2 = Nil /\ back = Nil /\ profit = <<>>
  /\ ws = EmptySheet
  /\ AppIdle

NormalizeStorico ==
  /\ step = "in"
  /\ out' = normalize_MGSTORICO(raw, today)
  /\ step' = "norm"
  /\ UNCHANGED <<decvars, table_kind, today, ws, raw, out2, back, profit, appvars>>

WriteStorico ==
  /\ step = "norm"
  /\ \E w \in {write_to_sheet(ws, raw, today)} :
        /\ ws' = w.sheet
        /\ step' = IF w.ok THEN "written" ELSE "failed"
  /\ UNCHANGED <<decvars, table_kind, today, raw, out, out2, back, profit, appvars>>

NextStorico == NormalizeStorico \/ WriteStorico
SpecStorico == InitStorico /\ [][NextStorico]_vars

\* ------------------------------------------------------------ the app
\* What the worksheet may hold when a session starts: nothing at all, or a
\* header (with or without a foreign column) over up to MaxSheetRows rows
\* of strings, typed by hand or written by an earlier run.
MaxSheetRows == 2
\* Ids grow with every add; the forms stay open while the next id is within
\* this bound.
MaxNewId == 4
SheetIds == { <<"1">>, <<"2">>, <<"1",".","5">>, <<>> }
SheetRow(kind, header, id, t) ==
  [j \in 1..Len(header) |->
     IF header[j] = "ID" THEN id ELSE TemplateCell(t, header[j]).s]
InitSheets(kind) ==
  { [header |-> h,
     rows |-> [i \in 1..Len(ids) |-> SheetRow(kind, h, ids[i], Templates[((i + 1) % 2) + 1])]] :
      ids \in UNION {[1..n -> SheetIds] : n \in 0..MaxSheetRows},
      h \in {required_cols(kind), AllCols(kind)} }
  \cup {EmptySheet}

Init ==
  /\ table_kind \in Kinds
  /\ today = Day1
  /\ ws \in InitSheets(table_kind)
  /\ raw = Nil /\ step = "app" /\ out = Nil /\ out2 = Nil /\ back = Nil /\ profit = <<>>
  /\ AppIdle

\* A script run starts by loading the table: from the cache when it holds an
\* entry, from the store otherwise (and the result is then cached).  A load
\* that raises caches nothing.
Load ==
  IF cache.valid THEN [df |-> cache.df, sheet |-> ws, cache |-> cache]
  ELSE Only({ [df |-> l.df, sheet |-> l.sheet,
                cache |-> IF l.df.ok THEN [valid |-> TRUE, df |-> l.df] ELSE NoCache] :
              l \in {_load_generic(ws, table_kind, today)} })

\* A run that only renders the page.
View(s) ==
  /\ pc[s] = "idle"
  /\ ~cache.valid
  /\ \E l \in {Load} : ws' = l.sheet /\ cache' = l.cache
  /\ UNCHANGED <<decvars, table_kind, today, normvars, pc, op, pend, before, next_id>>

\* The "Aggiorna" buttons: _load_generic.clear(); st.rerun().
Refresh(s) ==
  /\ pc[s] = "idle"
  /\ cache.valid
  /\ cache' = NoCache
  /\ UNCHANGED <<decvars, table_kind, today, ws, normvars, pc, op, pend, before, next_id>>

\* The cache entry outlives its ttl.
Expire ==
  /\ cache.valid
  /\ \A s \in Sessions : pc[s] = "idle"
  /\ cache' = NoCache
  /\ UNCHANGED <<decvars, table_kind, today, ws, normvars, pc, op, pend, before, next_id>>

\* next_id = 1 if df.empty else int(pd.to_numeric(df["ID"]).max()) + 1
MaxId(df) ==
  LET top == CHOOSE i \in 1..Len(df.rows) :
               \A j \in 1..Len(df.rows) : df.rows[j]["ID"].n <= df.rows[i]["ID"].n
  IN df.rows[top]["ID"].n
NextId(df) == IF empty(df) THEN 1 ELSE MaxId(df) + 1

\* The row the add form builds; the session's name stands for the text the
\* user typed.
new_row(kind, id, now, s) ==
  [c \in Range(required_cols(kind)) |->
     CASE c = "ID" -> IntV(id)
       [] c = "Data" -> Str(now)
       [] c = "Campionato" -> Str(LEAGUES[1])
       [] c \in {"Partita", "Multipla"} -> Str(<<s>>)
       [] c = "Mercato" -> Str(<<"M","G">>)
       [] c = "Quota" -> FltV(160)
       [] c = "Quota Totale" -> FltV(250)
       [] c = "Stake" -> FltV(1000)
       [] c = "Esito" -> Str(InAttesa)
       [] OTHER -> EmptyStr]

\* pd.concat([df, pd.DataFrame([new_row])], ignore_index=True)
concat(df, row) == [df EXCEPT !.rows = Append(df.rows, row)]

\* "Aggiungi": the run loads the table, builds the row and calls the write.
AddSubmit(s) ==
  /\ pc[s] = "idle"
  /\ \E l \in {Load} : \E id \in {NextId(l.df)} :
        /\ l.df.ok
        /\ Len(l.df.rows) < MaxRows /\ id <= MaxNewId
        /\ ws' = l.sheet /\ cache' = l.cache
        /\ before' = [before EXCEPT ![s] = l.sheet]
        /\ next_id' = [next_id EXCEPT ![s] = id]
        /\ pend' = [pend EXCEPT ![s] = concat(l.df, new_row(table_kind, id, today, s))]
  /\ op' = [op EXCEPT ![s] = "add"]
  /\ pc' = [pc EXCEPT ![s] = "ensure_header"]
  /\ UNCHANGED <<decvars, table_kind, today, normvars>>

\* What the grid editor hands back: the loaded table as it is, without its
\* first row, with the outcome of its first row changed, or with a row the
\* user appended (every cell None but the text typed into one).
Edits == {"none", "delete", "outcome", "append"}
blank_row(kind, s) ==
  [c \in Range(required_cols(kind)) |->
     IF c \in {"Partita", "Multipla"} THEN Str(<<s>>) ELSE None]
edited(df, e, s) ==
  CASE e = "delete" -> [df EXCEPT !.rows = Tail(df.rows)]
    [] e = "outcome" -> [df EXCEPT !.rows[1]["Esito"] = Str(Persa)]
    [] e = "append" -> concat(df, blank_row(table_kind, s))
    [] OTHER -> df

\* "Salva": the run loads the table and writes the edited grid.
Save(s, edits) ==
  /\ pc[s] = "idle"
  /\ \E l \in {Load} :
        /\ l.df.ok
        /\ \E e \in edits :
             /\ e \in {"delete", "outcome"} => Len(l.df.rows) > 0
             /\ e = "append" => Len(l.df.rows) < MaxRows /\ NextId(l.df) <= MaxNewId
             /\ pend' = [pend EXCEPT ![s] = edited(l.df, e, s)]
        /\ ws' = l.sheet /\ cache' = l.cache
        /\ before' = [before EXCEPT ![s] = l.sheet]
  /\ op' = [op EXCEPT ![s] = "save"]
  /\ pc' = [pc EXCEPT ![s] = "ensure_header"]
  /\ UNCHANGED <<decvars, table_kind, today, normvars, next_id>>

\* _write_generic, one store call at a time.
\* _ensure_header(ws, required_cols); df = _normalize(df, required_cols, kind)
WriteHeader(s) ==
  /\ pc[s] = "ensure_header"
  /\ ws' = _ensure_header(ws, required_cols(table_kind))
  /\ \E df \in {_normalize(pend[s], table_kind, today)} :
        IF df.ok
        THEN /\ pend' = [pend EXCEPT ![s] = df]
             /\ pc' = [pc EXCEPT ![s] = "clear"]
             /\ UNCHANGED <<op, before, next_id>>
        ELSE \* _normalize raises: the exception ends the run
             /\ pend' = [pend EXCEPT ![s] = Nil]
             /\ pc' = [pc EXCEPT ![s] = "idle"]
             /\ op' = [op EXCEPT ![s] = "none"]
             /\ before' = [before EXCEPT ![s] = EmptySheet]
             /\ next_id' = [next_id EXCEPT ![s] = 0]
  /\ UNCHANGED <<decvars, table_kind, today, normvars, cache>>

\* ws.clear()
WriteClear(s) ==
  /\ pc[s] = "clear"
  /\ ws' = ws_clear(ws)
  /\ pc' = [pc EXCEPT ![s] = "update"]
  /\ UNCHANGED <<decvars, table_kind, today, normvars, cache, op, pend, before, next_id>>

\* ws.update("A1", values)
WriteUpdate(s) ==
  /\ pc[s] = "update"
  /\ ws' = ws_update(ws, ToValues(pend[s], table_kind))
  /\ pc' = [pc EXCEPT ![s] = "invalidate"]
  /\ UNCHANGED <<decvars, table_kind, today, normvars, cache, op, pend, before, next_id>>

\* _load_generic.clear(); then st.success and st.rerun
WriteInvalidate(s) ==
  /\ pc[s] = "invalidate"
  /\ cache' = NoCache
  /\ pc' = [pc EXCEPT ![s] = "idle"]
  /\ op' = [op EXCEPT ![s] = "none"]
  /\ pend' = [pend EXCEPT ![s] = Nil]
  /\ next_id' = [next_id EXCEPT ![s] = 0]
  /\ before' = [before EXCEPT ![s] = EmptySheet]
  /\ UNCHANGED <<decvars, table_kind, today, ws, normvars>>

\* The store call the session is about to make raises (network, auth): the
\* exception leaves _write_generic and ends the run.
ConnectionError(s) ==
  /\ pc[s] \in {"ensure_header", "clear", "update"}
  /\ pc' = [pc EXCEPT ![s] = "idle"]
  /\ op' = [op EXCEPT ![s] = "none"]
  /\ pend' = [pend EXCEPT ![s] = Nil]
  /\ next_id' = [next_id EXCEPT ![s] = 0]
  /\ before' = [before EXCEPT ![s] = EmptySheet]
  /\ UNCHANGED <<decvars, table_kind, today, ws, normvars, cache>>

Write(s) ==
  WriteHeader(s) \/ WriteClear(s) \/ WriteUpdate(s) \/ WriteInvalidate(s)

\* One browser session.
Next ==
  \/ Expire
  \/ View("A") \/ Refresh("A") \/ AddSubmit("A") \/ Save("A", Edits)
  \/ Write("A") \/ ConnectionError("A")
Spec == Init /\ [][Next]_vars

\* Two browser sessions of one server process, on a sheet that holds two
\* clean rows: each may add a row or delete one, and no store call fails.
InitTwo ==
  /\ Init
  /\ table_kind = "singole"
  /\ ws.header = required_cols(table_kind)
  /\ Len(ws.rows) = MaxSheetRows
  /\ \A i \in 1..Len(ws.rows) : ws.rows[i][1] = <<Digits[i + 1]>>
NextTwo ==
  \E s \in Sessions : AddSubmit(s) \/ Save(s, {"delete"}) \/ Write(s)
SpecTwo == InitTwo /\ [][NextTwo]_vars

\* One browser session on a sheet whose ids are pairwise distinct positive
\* integers (a sheet the app itself wrote, or an empty one).
WholeDistinctIds(sheet) ==
  \A i \in 1..Len(sheet.rows) :
    /\ AllDigits(sheet.rows[i][1]) /\ sheet.rows[i][1] # <<>>
    /\ DigitsVal(sheet.rows[i][1]) > 0
    /\ \A j \in 1..Len(sheet.rows) : i # j => sheet.rows[i][1] # sheet.rows[j][1]
InitIds == Init /\ WholeDistinctIds(ws)
SpecIds == InitIds /\ [][Next]_vars

\* ------------------------------------- the decision app (gsheet_v2)
\* mg_decision_app_gsheet_v2.py keeps the table in st.session_state.storico
\* and rewrites the first worksheet after every change.  It has no ids and
\* no _normalize.
COLUMNS ==
  <<"Campionato", "Partita", "Giocata", "Quota", "Esito", "Note", "DataInserimento">>
DECISION_LEAGUES ==
  << <<"S","e","r","i","e"," ","A">>,
     <<"P","r","e","m","i","e","r"," ","L","e","a","g","u","e">>,
     <<"L","i","g","a">>,
     <<"B","u","n","d","e","s","l","i","g","a">>,
     <<"L","i","g","u","e"," ","1">>,
     <<"A","l","t","r","o">> >>
Simulata == <<"S","i","m","u","l","a","t","a">>
DECISION_OUTCOMES == <<Simulata, Vinta, Persa>>

\* ws.append_row(row): the row goes below the last row of the sheet.
ws_append_row(sheet, row) ==
  IF sheet.header = <<>> /\ sheet.rows = <<>> THEN [header |-> row, rows |-> <<>>]
  ELSE [sheet EXCEPT !.rows = Append(@, row)]
\* ws.append_rows(rows, value_input_option="USER_ENTERED")
ws_append_rows(sheet, rows) ==
  IF sheet.header = <<>> /\ sheet.rows = <<>>
  THEN [header |-> Head(rows), rows |-> Tail(rows)]
  ELSE [sheet EXCEPT !.rows = @ \o rows]

\* open_ws: the worksheet it leaves.
open_ws(sheet) ==
  IF sheet.header = <<>> /\ sheet.rows = <<>> THEN ws_append_row(sheet, COLUMNS)
  ELSE IF sheet.header # COLUMNS THEN ws_append_row(ws_clear(sheet), COLUMNS)
  ELSE sheet

\* sheet_to_df; df["Quota"] raises KeyError when the header has no Quota.
sheet_to_df(sheet) ==
  IF sheet.header = <<>> \/ Len(sheet.rows) = 0 THEN DF(COLUMNS, <<>>)
  ELSE IF "Quota" \notin Range(sheet.header) THEN Raised
  ELSE Only({ Select(b, COLUMNS) :
         b \in { AddMissing(a, COLUMNS) :
         a \in { SetCol(df, "Quota", to_numeric(Col(df, "Quota"))) :
         df \in { DataFrame(get_all_values(sheet)) } } } })

\* rows = df.fillna("").astype(str).values.tolist()
DecisionRows(df) ==
  [i \in 1..Len(df.rows) |->
     [j \in 1..Len(COLUMNS) |-> astype_str(fillna(df.rows[i][COLUMNS[j]], EmptyStr))]]

\* A float assigned into, or concatenated below, the Quota column makes the
\* column float64.
QuotaAsFloat(df) ==
  [df EXCEPT !.rows = [i \in 1..Len(df.rows) |->
                         [df.rows[i] EXCEPT !["Quota"] = AsFloat(@)]]]

\* nuovo: the row the form builds; the session's name stands for the text
\* the user typed.
nuovo(now, s) ==
  [c \in Range(COLUMNS) |->
     CASE c = "Campionato" -> Str(DECISION_LEAGUES[1])
       [] c = "Partita" -> Str(<<s>>)
       [] c = "Giocata" -> Str(<<"M","G">>)
       [] c = "Quota" -> FltV(160)
       [] c = "Esito" -> Str(Simulata)
       [] c = "DataInserimento" -> Str(now)
       [] OTHER -> EmptyStr]

\* What the worksheet of the decision app may hold when the process starts.
DecisionRow(header, i) ==
  [j \in 1..Len(header) |->
     CASE header[j] = "Campionato" -> DECISION_LEAGUES[i]
       [] header[j] = "Quota" -> (IF i = 1 THEN <<"1",".","8">> ELSE <<>>)
       [] header[j] = "Esito" -> DECISION_OUTCOMES[i]
       [] header[j] = "DataInserimento" -> OldDay
       [] OTHER -> <<"r", Digits[i + 1]>>]
DecisionHeaders ==
  { COLUMNS, Without(COLUMNS, {"Note"}), Append(COLUMNS, "Extra"),
    <<"Partita", "Campionato", "Giocata", "Quota", "Esito", "Note", "DataInserimento">> }
DecisionSheets ==
  { [header |-> h, rows |-> [i \in 1..n |-> DecisionRow(h, i)]] :
      h \in DecisionHeaders, n \in 0..MaxSheetRows } \cup {EmptySheet}

InitDecision ==
  /\ table_kind = "decision"
  /\ today = Day1
  /\ ws \in DecisionSheets
  /\ raw = Nil /\ step = "app" /\ out = Nil /\ out2 = Nil /\ back = Nil /\ profit = <<>>
  /\ cache = NoCache
  /\ pc = [s \in Sessions |-> "open"]
  /\ op = [s \in Sessions |-> "none"]
  /\ pend = [s \in Sessions |-> Nil]
  /\ before = [s \in Sessions |-> EmptySheet]
  /\ next_id = [s \in Sessions |-> 0]
  /\ storico = [s \in Sessions |-> Nil]
  /\ storico0 = [s \in Sessions |-> Nil]

decframe == <<table_kind, today, normvars, cache, pend, before, next_id>>

\* The first run of the script: ws = open_ws(); storico = sheet_to_df(ws).
DecisionOpen(s) ==
  /\ pc[s] = "open"
  /\ \E sheet \in {open_ws(ws)} :
        /\ ws' = sheet
        /\ storico' = [storico EXCEPT ![s] = sheet_to_df(sheet)]
  /\ pc' = [pc EXCEPT ![s] = "idle"]
  /\ UNCHANGED <<decframe, op, storico0>>

\* "Ricarica da Google Sheet"
Ricarica(s) ==
  /\ pc[s] = "idle"
  /\ storico' = [storico EXCEPT ![s] = sheet_to_df(ws)]
  /\ UNCHANGED <<decframe, ws, pc, op, storico0>>

\* A handler has assigned the new table to session_state and calls
\* df_to_sheet.
StartWrite(s, df, name) ==
  /\ storico0' = [storico0 EXCEPT ![s] = storico[s]]
  /\ storico' = [storico EXCEPT ![s] = df]
  /\ op' = [op EXCEPT ![s] = name]
  /\ pc' = [pc EXCEPT ![s] = "df_clear"]
  /\ UNCHANGED <<decframe, ws>>

\* "Aggiungi"
Aggiungi(s) ==
  /\ pc[s] = "idle" /\ Len(storico[s].rows) < MaxRows
  /\ StartWrite(s, QuotaAsFloat(concat(storico[s], nuovo(today, s))), "add")

\* "Modifica": one cell of the first row gets the typed text (Quota: the
\* typed number; a text that is no number is refused and nothing happens).
EditTexts == { <<"B","o","h">>, <<"1",".","7","5">> }
Modifica(s) ==
  /\ pc[s] = "idle" /\ Len(storico[s].rows) > 0
  /\ \E idx \in {1}, col \in {"Quota", "Esito"}, nuovo_valore \in EditTexts :
        IF col = "Quota"
        THEN /\ notna(ParseNum(nuovo_valore))
             /\ StartWrite(s, QuotaAsFloat([storico[s] EXCEPT
                                !.rows[idx]["Quota"] = ParseNum(nuovo_valore)]), "edit")
        ELSE StartWrite(s, [storico[s] EXCEPT !.rows[idx][col] = Str(nuovo_valore)], "edit")

\* "Elimina" of the first row: df_all.drop(idx).reset_index(drop=True)
Elimina(s) ==
  /\ pc[s] = "idle" /\ Len(storico[s].rows) > 0
  /\ \E idx \in {1} :
        StartWrite(s, [storico[s] EXCEPT !.rows =
                         SubSeq(@, 1, idx - 1) \o SubSeq(@, idx + 1, Len(@))], "delete")

\* df_to_sheet, one store call at a time.
DfClear(s) ==
  /\ pc[s] = "df_clear"
  /\ ws' = ws_clear(ws)
  /\ pc' = [pc EXCEPT ![s] = "df_header"]
  /\ UNCHANGED <<decframe, op, decvars>>

DfHeader(s) ==
  /\ pc[s] = "df_header"
  /\ ws' = ws_append_row(ws, COLUMNS)
  /\ IF empty(storico[s])
     THEN pc' = [pc EXCEPT ![s] = "idle"] /\ op' = [op EXCEPT ![s] = "none"]
     ELSE pc' = [pc EXCEPT ![s] = "df_rows"] /\ UNCHANGED op
  /\ UNCHANGED <<decframe, decvars>>

DfRows(s) ==
  /\ pc[s] = "df_rows"
  /\ ws' = ws_append_rows(ws, DecisionRows(storico[s]))
  /\ pc' = [pc EXCEPT ![s] = "idle"]
  /\ op' = [op EXCEPT ![s] = "none"]
  /\ UNCHANGED <<decframe, decvars>>

\* The store call the handler is about to make raises: the run ends there.
DecisionError(s) ==
  /\ pc[s] \in {"df_clear", "df_header", "df_rows"}
  /\ pc' = [pc EXCEPT ![s] = "idle"]
  /\ op' = [op EXCEPT ![s] = "none"]
  /\ UNCHANGED <<decframe, ws, decvars>>

NextDecision ==
  \/ DecisionOpen("A") \/ Ricarica("A")
  \/ Aggiungi("A") \/ Modifica("A") \/ Elimina("A")
  \/ DfClear("A") \/ DfHeader("A") \/ DfRows("A")
  \/ DecisionError("A")
SpecDecision == InitDecision /\ [][NextDecision]_vars

\* ------------------------------------------------ vocabulary of the claims
Normalized == step # "in"
RawN == IF is_None(raw) \/ empty(raw) THEN 0 ELSE Len(raw.rows)
RawHas(c) == RawN > 0 /\ c \in Range(raw.cols)
\* A required column the raw table lacks reads as "".
RawCell(i, c) == IF c \in Range(raw.cols) THEN raw.rows[i][c] ELSE EmptyStr
RawId(i) == to_numeric_cell(RawCell(i, "ID"))
HasId(i) == notna(RawId(i))

\* The number a numeric cell stands for, in hundredths.
NumKey(c) ==
  CASE c.t = "i" -> <<"num", c.n * 100>>
    [] c.t = "f" -> <<"num", c.m>>
    [] c.t = "inf" -> <<"inf", c.sg>>
    [] OTHER -> <<"null", 0>>

HasDuplicateIds ==
  \E i, j \in 1..RawN : i < j /\ HasId(i) /\ HasId(j) /\ NumKey(RawId(i)) = NumKey(RawId(j))

IsBlank(c) == isna(c) \/ strip(astype_str(c)) = <<>>
NonBlankDates == \A i \in 1..RawN : ~IsBlank(RawCell(i, "Data"))

\* What one cell of the output must be, given the raw cell it came from.
CellAgrees(c, o, r) ==
  CASE c \in {"Quota", "Quota Totale"} -> NumKey(o) = NumKey(to_numeric_cell(r))
    [] c = "Stake" -> NumKey(o) = NumKey(fillna(to_numeric_cell(r), FltV(0)))
    [] c = "Esito" -> o = IF isin(r, OUTCOMES) THEN r ELSE Str(InAttesa)
    [] c = "Campionato" -> o = IF isin(r, LEAGUES) THEN r ELSE Str(Altro)
    [] c = "Data" -> IF IsBlank(r) THEN o \in {Str(Day1), Str(Day2)} ELSE o = r
    [] OTHER -> o = IF isna(r) THEN EmptyStr ELSE r

\* Output row o carries the non-id fields of raw row i.
FieldsAgree(o, i) ==
  \A c \in Range(required_cols(table_kind)) \ {"ID"} : CellAgrees(c, o[c], RawCell(i, c))

Perms(n) == {f \in [1..n -> 1..n] : \A a, b \in 1..n : f[a] = f[b] => a = b}

\* ------------------------------------------------------------------ C1
\* C1: for every raw input table and either kind, normalize completes
\* without raising and returns a table whose columns are exactly the
\* canonical columns of the kind, in canonical order; an empty or missing
\* input gives an empty table with those columns.
C1_NeverRaisesCanonicalColumns ==
  Normalized =>
    /\ out.ok
    /\ out.cols = required_cols(table_kind)
    /\ \A i \in 1..Len(out.rows) : DOMAIN out.rows[i] = Range(required_cols(table_kind))
    /\ (RawN = 0 => out.rows = <<>>)

\* ------------------------------------------------------------------ C2
\* C2: in the output of normalize the ids are positive integers, strictly
\* increasing from one row to the next.
C2_IdsPositiveStrictlyIncreasing ==
  (Normalized /\ out.ok) =>
    \A i \in 1..Len(out.rows) :
      /\ out.rows[i]["ID"].t = "i"
      /\ out.rows[i]["ID"].n > 0
      /\ (i < Len(out.rows) => out.rows[i]["ID"].n < out.rows[i + 1]["ID"].n)

\* ------------------------------------------------------------------ C3
\* C3: when at least two rows of the N-row input carry the same non-null
\* numeric id, normalize numbers the rows 1..N in the original row order:
\* the row at position i gets id i and keeps its own (coerced) other fields.
C3_DuplicatesRenumberInRowOrder ==
  (Normalized /\ HasDuplicateIds) =>
    /\ out.ok
    /\ Len(out.rows) = RawN
    /\ \A i \in 1..RawN : out.rows[i]["ID"] = IntV(i) /\ FieldsAgree(out.rows[i], i)

\* A three-row input, two rows sharing an id and one with a non-numeric id,
\* the rows not all alike, has been normalized.
C3_Witness ==
  /\ Normalized /\ HasDuplicateIds /\ RawN = 3
  /\ \E i \in 1..RawN : ~HasId(i)
  /\ raw.rows[1] # raw.rows[2]
  /\ Len(out.rows) = 3

\* ------------------------------------------------------------------ C4
\* C4: when the present ids are numeric and pairwise distinct and the other
\* rows have a blank or non-numeric id, normalize leaves every present id
\* unchanged and gives the id-less rows, in row order, max(existing)+1,
\* max(existing)+2, ... (from 1 when no row has an id).
MaxPresent ==
  IF \E i \in 1..RawN : HasId(i)
  THEN LET top == CHOOSE i \in 1..RawN :
                    HasId(i) /\ \A j \in 1..RawN : HasId(j) => ~NumLess(RawId(i), RawId(j))
       IN NumKey(RawId(top))[2]
  ELSE 0
IdRank(i) == Cardinality({j \in 1..i : ~HasId(j)})
ExpectedId(i) ==
  IF HasId(i) THEN NumKey(RawId(i)) ELSE <<"num", MaxPresent + 100 * IdRank(i)>>

C4_Pre == RawHas("ID") /\ ~HasDuplicateIds
C4_PresentKeptMissingContinue ==
  (Normalized /\ C4_Pre) =>
    /\ out.ok
    /\ Len(out.rows) = RawN
    /\ \E f \in Perms(RawN) :
         \A i \in 1..RawN :
           /\ NumKey(out.rows[f[i]]["ID"]) = ExpectedId(i)
           /\ FieldsAgree(out.rows[f[i]], i)

\* ------------------------------------------------------------------ C5
\* C5: normalize is idempotent: for every raw table whose date cells are
\* all non-blank, normalize(normalize(x)) equals normalize(x).
C5_Idempotent ==
  (step \in {"norm2", "written", "read"} /\ NonBlankDates) => out2 = out

\* ------------------------------------------------------------------ C6
\* C6: round trip through the store: after write(normalize(x)), a fresh load
\* returns a table equal to normalize(x), for every x with no blank dates.
C6_RoundTrip ==
  (step = "read" /\ NonBlankDates) => back = out

\* ------------------------------------------------------------------ C7
\* The worksheet that holds exactly the table df: the canonical header over
\* the rows of df as strings.
SheetOf(df) == ToValues(df, table_kind)

\* C7: a write is all-or-nothing under failure: when a store call of a write
\* raises a connection error, the worksheet afterwards holds either exactly
\* the new table or exactly what it held before the write.
C7_WriteAllOrNothing ==
  [][\A s \in Sessions :
       ConnectionError(s) => (ws' = before[s] \/ ws' = SheetOf(pend[s]))]_vars

\* ------------------------------------------------------------------ C8
\* C8: last write wins: when the store calls of two writers interleave, the
\* table's content once the last of them has finished its replace is exactly
\* that writer's table, never a mixture of the rows of both.
C8_LastWriteWins ==
  [][\A s \in Sessions :
       (WriteUpdate(s) /\ \A t \in Sessions \ {s} : pc[t] \in {"idle", "invalidate"})
         => ws' = SheetOf(pend[s])]_vars

\* ------------------------------------------------------------------ C9
\* C9: every write that changes the store and every refresh invalidates the
\* read cache before the next load: whenever the session is at rest, a table
\* the cache would serve is the table a fetch from the store would return.
C9_CacheAgreesWithStore ==
  (cache.valid /\ \A s \in Sessions : pc[s] = "idle")
    => cache.df = _load_generic(ws, table_kind, today).df

\* ------------------------------------------------------------------ C10
\* C10: submitting the add form creates a record whose id is the maximum id
\* of the loaded table plus one (1 on an empty table), an id no loaded row
\* has, and the record is stored under exactly that announced id.
StoredRow(s) ==
  [j \in 1..Len(required_cols(table_kind)) |->
     astype_str(new_row(table_kind, next_id[s], today, s)[required_cols(table_kind)[j]])]

C10_AddStoresAnnouncedId ==
  [][\A s \in Sessions :
       /\ AddSubmit(s) =>
            /\ next_id'[s] = (IF Load.df.rows = <<>> THEN 1 ELSE MaxId(Load.df) + 1)
            /\ \A i \in 1..Len(Load.df.rows) : Load.df.rows[i]["ID"].n # next_id'[s]
       /\ (WriteUpdate(s) /\ op[s] = "add") =>
            \E i \in 1..Len(ws'.rows) : ws'.rows[i] = StoredRow(s)]_vars

\* ------------------------------------------------------------------ C11
\* C11: for every record of the normalized table the profit is: single
\* wager Won -> odds - 1, Lost -> -1, Pending -> 0; combination wager
\* Won -> stake * (odds - 1), Lost -> -stake, Pending -> 0.  (For a Won
\* record without odds the claim names no number, so none is demanded.)
ClaimedProfit(r) ==
  LET odds == r[IF table_kind = "singole" THEN "Quota" ELSE "Quota Totale"]
      stake == IF table_kind = "singole" THEN 100 ELSE Hundredths(r["Stake"])
  IN IF r["Esito"] = Str(Vinta) THEN stake * (Hundredths(odds) - 100)
     ELSE IF r["Esito"] = Str(Persa) THEN 0 - (stake * 100)
     ELSE 0

C11_ProfitPerRecord ==
  step = "report" =>
    \A i \in 1..Len(out.rows) :
      (out.rows[i]["Esito"] = Str(Vinta) => notna(out.rows[i][IF table_kind = "singole" THEN "Quota" ELSE "Quota Totale"]))
        => profit[i] = ClaimedProfit(out.rows[i])

\* ------------------------------------------------------------------ C12
\* C12: after normalize every record's outcome is in the outcome enumeration
\* and every single-wager record's league is in the league set: a blank, null
\* or unknown outcome became "In attesa", a null or unknown league became
\* "Altro", and a value already in the set is the value the row came with.
C12_OutcomeLeagueCoerced ==
  (Normalized /\ out.ok) =>
    /\ Len(out.rows) = RawN
    /\ \A i \in 1..Len(out.rows) :
         /\ isin(out.rows[i]["Esito"], OUTCOMES)
         /\ table_kind = "singole" => isin(out.rows[i]["Campionato"], LEAGUES)
    /\ \E f \in Perms(RawN) :
         \A i \in 1..RawN :
           /\ CellAgrees("Esito", out.rows[f[i]]["Esito"], RawCell(i, "Esito"))
           /\ table_kind = "singole" =>
                CellAgrees("Campionato", out.rows[f[i]]["Campionato"], RawCell(i, "Campionato"))

\* A single-wager table has been normalized whose rows came with a null, an
\* unknown and a valid outcome, and with a null, an unknown and a valid league.
C12_Witness ==
  /\ Normalized /\ out.ok /\ table_kind = "singole" /\ RawN = 3
  /\ RawHas("Esito") /\ RawHas("Campionato")
  /\ \E i, j, k \in 1..RawN :
       /\ RawCell(i, "Esito") = None /\ RawCell(i, "Campionato") = None
       /\ RawCell(j, "Esito") = Str(<<"v","i","n","t","a">>)
       /\ RawCell(j, "Campionato") = Str(<<"L","i","g","a"," ">>)
       /\ RawCell(k, "Esito") = Str(Vinta) /\ RawCell(k, "Campionato") = Str(LEAGUES[1])
  /\ \E i \in 1..3 : out.rows[i]["Esito"] = Str(Vinta)
  /\ \E i \in 1..3 : out.rows[i]["Campionato"] = Str(Altro)
\* ------------------------------------------------------------------ C13
\* C13: when the store write of an add, edit or delete fails with a
\* connectivity error, the session's in-memory table is exactly what it was
\* before the operation started.
C13_FailedWriteKeepsMemory ==
  [][\A s \in Sessions : DecisionError(s) => storico'[s] = storico0[s]]_vars

\* C14: when the sheet's header differs from the expected columns, opening
\* the table repairs the header to the existing names in their order followed
\* by each missing expected name, and leaves the data rows in the sheet; a
\* header that is already complete is left as it is.
C14_HeaderRepairKeepsRows ==
  [][\A s \in Sessions :
       DecisionOpen(s) => /\ ws'.header = AppendMissing(ws.header, COLUMNS)
                          /\ ws'.rows = ws.rows]_vars

\* The sheet of the decision app holds canonical records: the header is
\* COLUMNS, every row has a cell for each column, its outcome is one of the
\* outcome enumeration and its league one of the league set.
DecisionStoreCanonical ==
  /\ ws.header = COLUMNS
  /\ \A i \in 1..Len(ws.rows) :
       /\ Len(ws.rows[i]) = Len(COLUMNS)
       /\ ws.rows[i][Index(COLUMNS, "Esito")] \in Range(DECISION_OUTCOMES) \cup Range(OUTCOMES)
       /\ ws.rows[i][Index(COLUMNS, "Campionato")] \in Range(DECISION_LEAGUES) \cup Range(LEAGUES)

\* C15: every add, cell edit and delete normalizes the whole table before
\* rewriting it, so when the rewrite has completed every record in the store
\* is canonical: canonical columns, outcome within the outcome enumeration,
\* league within the league set.
C15_StoreCanonicalAfterMutation ==
  [][\A s \in Sessions :
       ((DfHeader(s) \/ DfRows(s)) /\ pc'[s] = "idle") => DecisionStoreCanonical']_vars

\* The free-text columns of the table in hand, and the texts a null cell
\* turns into when it is written as a string.
FreeText == {"Partita", "Mercato", "Multipla", "Note"}
NullMarkers == { <<"N","o","n","e">>, <<"n","a","n">>, <<"<","N","A",">">> }

\* C16: after normalize no free-text field (match, market, legs, notes) of
\* any record is null, and what the write then stores for it is never a
\* textual null marker.
C16_FreeTextNeverNull ==
  /\ (step \in {"norm", "written"} /\ out.ok) =>
        \A i \in 1..Len(out.rows) : \A c \in FreeText \cap Range(out.cols) :
           notna(out.rows[i][c])
  /\ step = "written" =>
        \A i \in 1..Len(ws.rows) : \A j \in 1..Len(ws.header) :
           ws.header[j] \in FreeText => ws.rows[i][j] \notin NullMarkers

\* C17: when the store calls of a write have all succeeded, the sheet's header
\* is exactly the required columns of the kind, in their order, and every
\* stored row has exactly one cell per required column: a foreign column the
\* sheet held before the write, and its cells, are gone.
C17_WriteLeavesCanonicalHeader ==
  [][\A s \in Sessions :
       WriteUpdate(s) =>
         /\ ws'.header = required_cols(table_kind)
         /\ \A i \in 1..Len(ws'.rows) :
              Len(ws'.rows[i]) = Len(required_cols(table_kind))]_vars

\* A write has just succeeded on a sheet that held a foreign column over two
\* rows, and it stored rows.
C17_Witness ==
  \E s \in Sessions :
    /\ pc[s] = "invalidate"
    /\ "Extra" \in Range(before[s].header)
    /\ Len(before[s].rows) = 2
    /\ Len(ws.rows) > 0
    /\ "Extra" \notin Range(ws.header)

\* A record is told by its id and its match (legs, for a combination): the
\* pairs the store holds, and the pairs a table in memory holds.
KeyCol == IF table_kind = "singole" THEN "Partita" ELSE "Multipla"
StoreKeys(sheet) ==
  IF sheet.header = <<>> THEN {}
  ELSE { <<NumKey(to_numeric_cell(Str(sheet.rows[i][Index(sheet.header, "ID")]))),
           sheet.rows[i][Index(sheet.header, KeyCol)]>> : i \in 1..Len(sheet.rows) }
MemKeys(df) ==
  { <<NumKey(df.rows[i]["ID"]), astype_str(df.rows[i][KeyCol])>> : i \in 1..Len(df.rows) }
SameOrFewer(K1, K2) == K1 \subseteq K2 \/ K2 \subseteq K1

\* C18: starting from a sheet whose ids are pairwise distinct positive
\* integers, no reload, add or save changes the id of a record that stays in
\* the table: a table loaded from the store carries the store's ids, and a
\* completed write stores the loaded records under the ids they had (with
\* the added record, or without the deleted one).
C18_IdsStable ==
  [][/\ (~cache.valid /\ cache'.valid) => MemKeys(cache'.df) = StoreKeys(ws)
     /\ \A s \in Sessions :
          WriteUpdate(s) => /\ cache.valid
                            /\ SameOrFewer(MemKeys(cache.df), StoreKeys(ws'))
                            /\ StoreKeys(ws') = MemKeys(pend[s])]_vars

\* A reload of a sheet with the ids 2, 1 in that order has been followed by
\* an add whose write is complete: the store holds three records.
C18_Witness ==
  \E s \in Sessions :
    /\ pc[s] = "invalidate" /\ op[s] = "add"
    /\ Len(before[s].rows) = 2 /\ before[s].rows[1][1] = <<"2">>
    /\ Len(ws.rows) = 3

====
